---- MODULE Spec2Model ----
(***************************************************************************)
(* The SPAM calibration and correction notebook                            *)
(* (examples/spam_example.ipynb), as the state machine its cells make when *)
(* they run top to bottom (execution counts 1..25).                        *)
(*                                                                         *)
(* The notebook drives three pytket backends (a noisy Aer simulator, a     *)
(* noiseless Aer simulator and the ibmq_ourense device) and one            *)
(* SpamCorrecter.  Results of the library calls whose numbers the notebook *)
(* never inspects are kept as terms that record what was computed from     *)
(* what: a counts result names the backend and the circuit it belongs to,  *)
(* a corrected result names the matrices, the raw counts, the readout map  *)
(* and the method of the correct_counts call.                              *)
(***************************************************************************)
EXTENDS Integers, Sequences, FiniteSets, TLC

\* ------------------------------------------------------------- bounds
\* The device has 1..MaxNodes qubits (ibmq_ourense: 5).
MaxNodes == 2
\* The SpamCorrecter is built from 1..MaxSubsets subsets of correlated qubits.
MaxSubsets == 2
\* A counts mapping given to probs_from_counts has 1..MaxKeys outcomes, each
\* counted 0..MaxCount times.
MaxKeys == 2
MaxCount == 2
\* The vectors given to JSD have 1..MaxVecLen entries.
MaxVecLen == 2

VARIABLES
    nNodes,                 \* len(pytket_ourense_device.nodes)
    qubit_subsets,          \* the list of subsets ourense_spam was built from
    pc,                     \* the statement the notebook is at
    calibration_circuits,   \* cell 8
    compiled,               \* <<backend, circuit>> pairs compile_circuit was run on
    jobs,                   \* backend jobs: handle -> "queued" | "done"
    submitLog,              \* handles in the order the jobs were submitted
    active,                 \* backend calls that have begun and not yet returned
    sim_handles,            \* cell 10
    ourense_handles,        \* cell 22
    iter,                   \* results the generator of cell 11 / 23 has yielded
    calResults,             \* the counts calculate_matrices has consumed so far
    spam_matrices,          \* ourense_spam's calibration matrices
    ghz_noisy_counts,       \* cell 13
    ghz_noiseless_counts,   \* cell 14
    ghz_ourense_counts,     \* cell 24
    ghz_spam_corrected_counts,          \* cell 15
    ghz_bayesian_corrected_counts,      \* cells 20, 25
    ghz_spam_corrected_ourense_counts,  \* cell 25
    probabilities,          \* the ghz_*_probabilities variables, by name
    printed,                \* the divergences printed, in order
    log,                    \* the calls made so far, in order
    local_pc,               \* the notebook-local function being applied, if any
    counts_arg,             \* probs_from_counts: its argument
    converted_probs,        \* probs_from_counts: what it returned
    P,                      \* JSD: its first argument
    Q,                      \* JSD: its second argument
    divergence              \* JSD: what it returned for (P, Q), (Q, P) and (P, P)

vars == <<nNodes, qubit_subsets, pc, calibration_circuits, compiled, jobs,
          submitLog, active, sim_handles, ourense_handles, iter,
          calResults, spam_matrices, ghz_noisy_counts, ghz_noiseless_counts,
          ghz_ourense_counts, ghz_spam_corrected_counts,
          ghz_bayesian_corrected_counts, ghz_spam_corrected_ourense_counts,
          probabilities, printed, log,
          local_pc, counts_arg, converted_probs, P, Q, divergence>>

\* ------------------------------------------------------------ helpers
None == [kind |-> "none"]

RECURSIVE Pow2(_)
Pow2(n) == IF n = 0 THEN 1 ELSE 2 * Pow2(n - 1)

Max(S) == CHOOSE m \in S : \A x \in S : x <= m

Range(s) == {s[i] : i \in 1..Len(s)}

\* pytket_ourense_device.nodes
Nodes(n) == 0..(n - 1)

\* The lists of subsets a SpamCorrecter can be built from: non-empty,
\* pairwise disjoint subsets of the device's nodes.
SubsetLists(n) ==
    {s \in UNION {[1..l -> (SUBSET Nodes(n)) \ {{}}] : l \in 1..MaxSubsets} :
        \A i, j \in 1..Len(s) : i # j => s[i] \cap s[j] = {}}

\* ourense_node_subsets = pytket_ourense_device.nodes;
\* ourense_spam = SpamCorrecter([ourense_node_subsets])
NotebookSubsets(n) == <<Nodes(n)>>

\* ------------------------------------------------- the circuits
CalCircuit(i) == [kind |-> "cal", index |-> i]

\* Circuit(len(nodes)).H(0).CX(0,1).CX(1,2).measure_all()
ghz_circuit == [kind |-> "ghz", index |-> 0]

\* ghz_circuit.qubit_readout after measure_all(): qubit q is read out at index q
qubit_readout(n) == [q \in Nodes(n) |-> q]

\* The number of calibration circuits: "exponential in the maximum number of
\* correlated" qubits; 32 for the one subset of the 5 Ourense nodes.
NumCalibrationCircuitsProduct(subsets) ==
    LET RECURSIVE Prod(_)
        Prod(i) == IF i = 0 THEN 1
                   ELSE Pow2(Cardinality(subsets[i])) * Prod(i - 1)
    IN  Prod(Len(subsets))

NumCalibrationCircuits(subsets) ==
    Pow2(Max({Cardinality(subsets[i]) : i \in 1..Len(subsets)}))

\* ourense_spam.calibration_circuits()
CalibrationCircuits(subsets) ==
    [i \in 1..NumCalibrationCircuits(subsets) |-> CalCircuit(i)]

\* ------------------------------------------------- the backends
Handle(backend, circuit) == [backend |-> backend, circ |-> circuit]

\* backend.process_circuits(circuits, n_shots): one handle per circuit, in order
Handles(backend, circuits) ==
    [i \in 1..Len(circuits) |-> Handle(backend, circuits[i])]

\* What backend.get_counts(handle) returns once the handle's job has run.
Counts(handle) == [kind |-> "counts", of |-> handle]

Call(op, backend, arg) == [op |-> op, backend |-> backend, arg |-> arg]

\* process_circuits / get_counts(circuit, n_shots) submit one job per circuit
Submit(js, hs) ==
    [h \in DOMAIN js \cup Range(hs) |->
        IF h \in Range(hs) THEN "queued" ELSE js[h]]

StatusOf(js, h) == IF h \in DOMAIN js THEN js[h] ELSE "unsubmitted"

\* get_counts polls until the job of the handle has run; it returns after
\* "Job Status: job has successfully run".
GetCountsReadyNoWait(js, h) == TRUE

GetCountsReady(js, h) == StatusOf(js, h) = "done"

\* --------------------------------------------- the SpamCorrecter
\* "There are three methods available for correcting counts: the default
\* minimise, invert and bayesian."
Methods == {"minimise", "invert", "bayesian"}

NoMethod == "(no method argument)"

DefaultMethodBayesian == "bayesian"

DefaultMethod == "minimise"

ResolveMethod(m) == IF m = NoMethod THEN DefaultMethod ELSE m

\* What calculate_matrices(results) stores in the SpamCorrecter.
Matrices(results) == [kind |-> "matrices", from |-> results]

\* ourense_spam.correct_counts(counts, qubit_readout[, method = m])
correct_counts(matrices, counts, readout, m) ==
    [kind |-> "corrected", matrices |-> matrices, raw |-> counts,
     readout |-> readout, method |-> ResolveMethod(m)]

\* The counts mapping the caller passed, once correct_counts has returned:
\* cell 18 converts ghz_noisy_counts after cell 15 corrected it, and the two
\* divergences cell 19 prints differ, so it was not overwritten with the result.
counts_after_correct_in_place(counts, result) == result

counts_after_correct(counts, result) == counts

\* probs_from_counts(counts), as the distribution of the counts it was given
ProbsOf(counts) == [kind |-> "probs", of |-> counts]

Event(op, backend, data) == [op |-> op, backend |-> backend, data |-> data]

\* ------------------------------------------- the order of the cells
\* Cells that only import or construct a backend (9, 12, 16, 17, 21) change
\* nothing the model keeps.
AfterSkipCalibration(cell) ==
    CASE cell = "cell8"  -> "cell10"
      [] cell = "cell10" -> "cell13"
      [] cell = "cell11" -> "cell13"
      [] cell = "cell13" -> "cell14"
      [] cell = "cell14" -> "cell15"
      [] cell = "cell15" -> "cell18"
      [] cell = "cell18" -> "cell19"
      [] cell = "cell19" -> "cell20"
      [] cell = "cell20" -> "cell22"
      [] cell = "cell22" -> "cell23"
      [] cell = "cell23" -> "cell24"
      [] cell = "cell24" -> "cell25"
      [] cell = "cell25" -> "done"

After(cell) ==
    CASE cell = "cell8"  -> "cell10"
      [] cell = "cell10" -> "cell11"
      [] cell = "cell11" -> "cell13"
      [] cell = "cell13" -> "cell14"
      [] cell = "cell14" -> "cell15"
      [] cell = "cell15" -> "cell18"
      [] cell = "cell18" -> "cell19"
      [] cell = "cell19" -> "cell20"
      [] cell = "cell20" -> "cell22"
      [] cell = "cell22" -> "cell23"
      [] cell = "cell23" -> "cell24"
      [] cell = "cell24" -> "cell25"
      [] cell = "cell25" -> "done"

\* ------------------------------------------------------------- Init
\* The state after cell 7: the device is known and ourense_spam is built.
\* The SpamCorrecter is modelled for every list of subsets it accepts; the
\* notebook's own list, NotebookSubsets(nNodes), is one of them.
ProbNames ==
    {"ghz_noiseless_probabilities", "ghz_noisy_probabilities",
     "ghz_spam_corrected_probabilities", "ghz_bayesian_probabilities",
     "ghz_ourense_probabilities", "ghz_spam_corrected_ourense_probabilities"}

NotebookStart ==
    /\ pc = "cell8"
    /\ calibration_circuits = <<>>
    /\ compiled = {}
    /\ jobs = <<>>
    /\ submitLog = <<>>
    /\ active = {}
    /\ sim_handles = <<>>
    /\ ourense_handles = <<>>
    /\ iter = 0
    /\ calResults = <<>>
    /\ spam_matrices = None
    /\ ghz_noisy_counts = None
    /\ ghz_noiseless_counts = None
    /\ ghz_ourense_counts = None
    /\ ghz_spam_corrected_counts = None
    /\ ghz_bayesian_corrected_counts = None
    /\ ghz_spam_corrected_ourense_counts = None
    /\ probabilities = [n \in ProbNames |-> None]
    /\ printed = <<>>
    /\ log = <<>>

Init ==
    /\ nNodes \in 1..MaxNodes
    /\ qubit_subsets \in SubsetLists(nNodes)
    /\ NotebookStart
    /\ local_pc = "idle"
    /\ counts_arg = <<>>
    /\ converted_probs = <<>>
    /\ P = <<>>
    /\ Q = <<>>
    /\ divergence = <<>>

\* ---------------------------------------------------------- actions
frame_counts == <<ghz_noisy_counts, ghz_noiseless_counts, ghz_ourense_counts>>
frame_corrected == <<ghz_spam_corrected_counts, ghz_bayesian_corrected_counts,
                     ghz_spam_corrected_ourense_counts>>
frame_device == <<nNodes, qubit_subsets>>
frame_cal == <<iter, calResults, spam_matrices>>
frame_backend == <<compiled, jobs, submitLog, active>>
frame_out == <<probabilities, printed>>
frame_local == <<local_pc, counts_arg, converted_probs, P, Q, divergence>>

\* Cell 8: calibration_circuits = ourense_spam.calibration_circuits()
Cell8 ==
    /\ pc = "cell8"
    /\ calibration_circuits' = CalibrationCircuits(qubit_subsets)
    /\ log' = Append(log, Event("calibration_circuits", "-", calibration_circuits'))
    /\ pc' = After("cell8")
    /\ UNCHANGED <<frame_local, frame_device, frame_backend, frame_cal, frame_counts,
                   frame_corrected, frame_out, sim_handles, ourense_handles>>

\* A process_circuits call begins: every circuit is compiled for the backend
\* first (the for loop of the cell), then one job per circuit is submitted.
BeginProcessCircuits(backend, circuits) ==
    /\ active = {}
    /\ compiled' = compiled \cup {<<backend, c>> : c \in Range(circuits)}
    /\ jobs' = Submit(jobs, Handles(backend, circuits))
    /\ submitLog' = submitLog \o Handles(backend, circuits)
    /\ active' = active \cup {Call("process_circuits", backend, circuits)}
    /\ log' = Append(log, Event("process_circuits", backend, circuits))

\* Cell 10: sim_handles = pytket_noisy_sim_backend.process_circuits(...)
Cell10Begin ==
    /\ pc = "cell10"
    /\ BeginProcessCircuits("noisy_sim", calibration_circuits)
    /\ UNCHANGED <<frame_local, frame_device, pc, calibration_circuits, frame_cal, frame_counts,
                   frame_corrected, frame_out, sim_handles, ourense_handles>>

Cell10Return ==
    /\ pc = "cell10"
    /\ \E c \in active :
        /\ c.op = "process_circuits"
        /\ sim_handles' = Handles(c.backend, c.arg)
        /\ active' = active \ {c}
    /\ pc' = After("cell10")
    /\ UNCHANGED <<frame_local, frame_device, calibration_circuits, compiled, jobs, submitLog,
                   frame_cal, frame_counts, frame_corrected, frame_out,
                   ourense_handles, log>>

\* The same circuits with the GHZ circuit first.
all_circuits_ghz_first == <<ghz_circuit>> \o calibration_circuits

\* Cell 22: all_circuits = calibration_circuits + [ghz_circuit];
\* ourense_handles = pytket_ourense_backend.process_circuits(all_circuits, n_shots)
all_circuits == Append(calibration_circuits, ghz_circuit)

Cell22Begin ==
    /\ pc = "cell22"
    /\ BeginProcessCircuits("ourense", all_circuits)
    /\ UNCHANGED <<frame_local, frame_device, pc, calibration_circuits, frame_cal, frame_counts,
                   frame_corrected, frame_out, sim_handles, ourense_handles>>

Cell22Return ==
    /\ pc = "cell22"
    /\ \E c \in active :
        /\ c.op = "process_circuits"
        /\ ourense_handles' = Handles(c.backend, c.arg)
        /\ active' = active \ {c}
    /\ pc' = After("cell22")
    /\ UNCHANGED <<frame_local, frame_device, calibration_circuits, compiled, jobs, submitLog,
                   frame_cal, frame_counts, frame_corrected, frame_out,
                   sim_handles, log>>

\* The backend runs a queued job.
JobCompletes ==
    /\ \E h \in DOMAIN jobs :
        /\ jobs[h] = "queued"
        /\ jobs' = [jobs EXCEPT ![h] = "done"]
    /\ UNCHANGED <<frame_local, frame_device, pc, calibration_circuits, compiled, submitLog,
                   active, frame_cal, frame_counts, frame_corrected, frame_out,
                   sim_handles, ourense_handles, log>>

\* The handles whose counts the generator handed to calculate_matrices yields:
\* cell 11: sim_handles; cell 23: ourense_handles[:-1].
CalHandlesAll(cell) == IF cell = "cell11" THEN sim_handles ELSE ourense_handles

CalHandles(cell) ==
    IF cell = "cell11" THEN sim_handles
    ELSE SubSeq(ourense_handles, 1, Len(ourense_handles) - 1)

\* calculate_matrices asks the generator for its next result: the generator
\* calls get_counts on the next handle.
CalGetCountsBegin ==
    /\ pc \in {"cell11", "cell23"}
    /\ active = {}
    /\ iter < Len(CalHandles(pc))
    /\ active' = active \cup
            {Call("get_counts", CalHandles(pc)[iter + 1].backend, CalHandles(pc)[iter + 1])}
    /\ UNCHANGED <<frame_local, frame_device, pc, calibration_circuits, compiled, jobs, submitLog,
                   frame_cal, frame_counts, frame_corrected, frame_out,
                   sim_handles, ourense_handles, log>>

\* get_counts returns the counts of the handle, and the generator yields them.
CalGetCountsReturn ==
    /\ pc \in {"cell11", "cell23"}
    /\ \E c \in active :
        /\ c.op = "get_counts"
        /\ GetCountsReady(jobs, c.arg)
        /\ calResults' = Append(calResults, Counts(c.arg))
        /\ active' = active \ {c}
        /\ log' = Append(log, Event("get_counts", c.backend,
                                    [handle |-> c.arg, status |-> StatusOf(jobs, c.arg)]))
    /\ iter' = iter + 1
    /\ UNCHANGED <<frame_local, frame_device, pc, calibration_circuits, compiled, jobs, submitLog,
                   spam_matrices, frame_counts, frame_corrected, frame_out,
                   sim_handles, ourense_handles>>

\* The generator is exhausted: calculate_matrices stores the matrices.
CalculateMatrices ==
    /\ pc \in {"cell11", "cell23"}
    /\ active = {}
    /\ iter = Len(CalHandles(pc))
    /\ spam_matrices' = Matrices(calResults)
    /\ log' = Append(log, Event("calculate_matrices", "-", calResults))
    /\ iter' = 0
    /\ calResults' = <<>>
    /\ pc' = After(pc)
    /\ UNCHANGED <<frame_local, frame_device, calibration_circuits, frame_backend, frame_counts,
                   frame_corrected, frame_out, sim_handles, ourense_handles>>

\* get_counts(circuit, n_shots) begins: the circuit's job is submitted.
BeginGetCountsOfCircuit(backend, circuit) ==
    /\ active = {}
    /\ jobs' = Submit(jobs, <<Handle(backend, circuit)>>)
    /\ submitLog' = Append(submitLog, Handle(backend, circuit))
    /\ active' = active \cup {Call("get_counts", backend, Handle(backend, circuit))}

\* A get_counts call of a cell returns the counts of its handle.
GetCountsReturns(c) ==
    /\ c.op = "get_counts"
    /\ GetCountsReady(jobs, c.arg)
    /\ active' = active \ {c}
    /\ log' = Append(log, Event("get_counts", c.backend,
                                [handle |-> c.arg, status |-> StatusOf(jobs, c.arg)]))

\* Cell 13: pytket_noisy_sim_backend.compile_circuit(ghz_circuit);
\* ghz_noisy_counts = pytket_noisy_sim_backend.get_counts(ghz_circuit, n_shots)
Cell13Begin ==
    /\ pc = "cell13"
    /\ compiled' = compiled \cup {<<"noisy_sim", ghz_circuit>>}
    /\ BeginGetCountsOfCircuit("noisy_sim", ghz_circuit)
    /\ UNCHANGED <<frame_local, frame_device, pc, calibration_circuits, frame_cal, frame_counts,
                   frame_corrected, frame_out, sim_handles, ourense_handles, log>>

Cell13Return ==
    /\ pc = "cell13"
    /\ \E c \in active :
        /\ GetCountsReturns(c)
        /\ ghz_noisy_counts' = Counts(c.arg)
    /\ pc' = After("cell13")
    /\ UNCHANGED <<frame_local, frame_device, calibration_circuits, compiled, jobs, submitLog,
                   frame_cal, ghz_noiseless_counts, ghz_ourense_counts,
                   frame_corrected, frame_out, sim_handles, ourense_handles>>

\* Cell 14: ghz_noiseless_counts =
\*     pytket_noiseless_sim_backend.get_counts(ghz_circuit, n_shots)
Cell14Begin ==
    /\ pc = "cell14"
    /\ BeginGetCountsOfCircuit("noiseless_sim", ghz_circuit)
    /\ UNCHANGED <<frame_local, frame_device, pc, calibration_circuits, compiled, frame_cal,
                   frame_counts, frame_corrected, frame_out, sim_handles,
                   ourense_handles, log>>

Cell14Return ==
    /\ pc = "cell14"
    /\ \E c \in active :
        /\ GetCountsReturns(c)
        /\ ghz_noiseless_counts' = Counts(c.arg)
    /\ pc' = After("cell14")
    /\ UNCHANGED <<frame_local, frame_device, calibration_circuits, compiled, jobs, submitLog,
                   frame_cal, ghz_noisy_counts, ghz_ourense_counts,
                   frame_corrected, frame_out, sim_handles, ourense_handles>>

CorrectEvent(given, result) ==
    Event("correct_counts", "-",
          [matrices |-> result.matrices, given |-> given, result |-> result])

\* Cell 15: ghz_spam_corrected_counts =
\*     ourense_spam.correct_counts(ghz_noisy_counts, ghz_circuit.qubit_readout)
Cell15 ==
    /\ pc = "cell15"
    /\ ghz_spam_corrected_counts' =
            correct_counts(spam_matrices, ghz_noisy_counts, qubit_readout(nNodes), NoMethod)
    /\ ghz_noisy_counts' = counts_after_correct(ghz_noisy_counts, ghz_spam_corrected_counts')
    /\ log' = Append(log, CorrectEvent(NoMethod, ghz_spam_corrected_counts'))
    /\ pc' = After("cell15")
    /\ UNCHANGED <<frame_local, frame_device, calibration_circuits, frame_backend, frame_cal,
                   ghz_noiseless_counts, ghz_ourense_counts, ghz_bayesian_corrected_counts,
                   ghz_spam_corrected_ourense_counts, frame_out, sim_handles,
                   ourense_handles>>

\* Cell 18: the three probs_from_counts conversions
Cell18 ==
    /\ pc = "cell18"
    /\ probabilities' =
        [probabilities EXCEPT
            !["ghz_noiseless_probabilities"] = ProbsOf(ghz_noiseless_counts),
            !["ghz_noisy_probabilities"] = ProbsOf(ghz_noisy_counts),
            !["ghz_spam_corrected_probabilities"] = ProbsOf(ghz_spam_corrected_counts)]
    /\ pc' = After("cell18")
    /\ UNCHANGED <<frame_local, frame_device, calibration_circuits, frame_backend, frame_cal,
                   frame_counts, frame_corrected, printed, sim_handles,
                   ourense_handles, log>>

\* print('Jensen-Shannon Divergence between <P> and <Q>: ', JSD(P, Q))
Line(p, q, probs, pname, qname) ==
    [P |-> p, Q |-> q, JSD |-> <<probs[pname], probs[qname]>>]

\* Cell 19: the divergence of the noisy and of the corrected simulation
Cell19 ==
    /\ pc = "cell19"
    /\ printed' = printed \o
        << Line("noiseless simulation", "noisy simulation", probabilities,
                "ghz_noiseless_probabilities", "ghz_noisy_probabilities"),
           Line("noiseless simulation", "spam corrected noisy simulation", probabilities,
                "ghz_noiseless_probabilities", "ghz_spam_corrected_probabilities") >>
    /\ pc' = After("cell19")
    /\ UNCHANGED <<frame_local, frame_device, calibration_circuits, frame_backend, frame_cal,
                   frame_counts, frame_corrected, probabilities, sim_handles,
                   ourense_handles, log>>

\* Cell 20: the bayesian correction of the noisy simulation, and two prints
Cell20 ==
    /\ pc = "cell20"
    /\ ghz_bayesian_corrected_counts' =
            correct_counts(spam_matrices, ghz_noisy_counts, qubit_readout(nNodes), "bayesian")
    /\ ghz_noisy_counts' =
            counts_after_correct(ghz_noisy_counts, ghz_bayesian_corrected_counts')
    /\ log' = Append(log, CorrectEvent("bayesian", ghz_bayesian_corrected_counts'))
    /\ probabilities' =
        [probabilities EXCEPT
            !["ghz_bayesian_probabilities"] = ProbsOf(ghz_bayesian_corrected_counts')]
    /\ printed' = printed \o
        << Line("noiseless simulation", "minimise corrected noisy simulation", probabilities',
                "ghz_noiseless_probabilities", "ghz_spam_corrected_probabilities"),
           Line("noiseless simulation", "Bayesian corrected noisy simulation", probabilities',
                "ghz_noiseless_probabilities", "ghz_bayesian_probabilities") >>
    /\ pc' = After("cell20")
    /\ UNCHANGED <<frame_local, frame_device, calibration_circuits, frame_backend, frame_cal,
                   ghz_noiseless_counts, ghz_ourense_counts, ghz_spam_corrected_counts,
                   ghz_spam_corrected_ourense_counts, sim_handles, ourense_handles>>

\* Cell 24: ghz_ourense_counts = pytket_ourense_backend.get_counts(ourense_handles[-1]);
\* ghz_ourense_probabilities = probs_from_counts(ghz_ourense_counts)
Cell24Begin ==
    /\ pc = "cell24"
    /\ active = {}
    /\ active' = active \cup
            {Call("get_counts", "ourense", ourense_handles[Len(ourense_handles)])}
    /\ UNCHANGED <<frame_local, frame_device, pc, calibration_circuits, compiled, jobs, submitLog,
                   frame_cal, frame_counts, frame_corrected, frame_out,
                   sim_handles, ourense_handles, log>>

Cell24Return ==
    /\ pc = "cell24"
    /\ \E c \in active :
        /\ GetCountsReturns(c)
        /\ ghz_ourense_counts' = Counts(c.arg)
    /\ probabilities' =
        [probabilities EXCEPT !["ghz_ourense_probabilities"] = ProbsOf(ghz_ourense_counts')]
    /\ pc' = After("cell24")
    /\ UNCHANGED <<frame_local, frame_device, calibration_circuits, compiled, jobs, submitLog,
                   frame_cal, ghz_noisy_counts, ghz_noiseless_counts,
                   frame_corrected, printed, sim_handles, ourense_handles>>

\* Cell 25: the two corrections of the device counts, the two conversions
\*     ghz_spam_corrected_ourense_probabilities = probs_from_counts(ghz_spam_corrected_counts)
\*     ghz_bayesian_probabilities = probs_from_counts(ghz_bayesian_corrected_counts)
\* and the three prints.
Cell25 ==
    /\ pc = "cell25"
    /\ ghz_spam_corrected_ourense_counts' =
            correct_counts(spam_matrices, ghz_ourense_counts, qubit_readout(nNodes), NoMethod)
    /\ ghz_bayesian_corrected_counts' =
            correct_counts(spam_matrices,
                           counts_after_correct(ghz_ourense_counts,
                                                ghz_spam_corrected_ourense_counts'),
                           qubit_readout(nNodes), "bayesian")
    /\ ghz_ourense_counts' =
            counts_after_correct(
                counts_after_correct(ghz_ourense_counts, ghz_spam_corrected_ourense_counts'),
                ghz_bayesian_corrected_counts')
    /\ log' = log \o
        << CorrectEvent(NoMethod, ghz_spam_corrected_ourense_counts'),
           CorrectEvent("bayesian", ghz_bayesian_corrected_counts') >>
    /\ probabilities' =
        [probabilities EXCEPT
            !["ghz_spam_corrected_ourense_probabilities"] = ProbsOf(ghz_spam_corrected_counts),
            !["ghz_bayesian_probabilities"] = ProbsOf(ghz_bayesian_corrected_counts')]
    /\ printed' = printed \o
        << Line("noiseless simulation", "ourense", probabilities',
                "ghz_noiseless_probabilities", "ghz_ourense_probabilities"),
           Line("noiseless simulation", "minimise corrected ourense", probabilities',
                "ghz_noiseless_probabilities", "ghz_spam_corrected_ourense_probabilities"),
           Line("noiseless simulation", "Bayesian corrected ourense", probabilities',
                "ghz_noiseless_probabilities", "ghz_bayesian_probabilities") >>
    /\ pc' = After("cell25")
    /\ UNCHANGED <<frame_local, frame_device, calibration_circuits, frame_backend, frame_cal,
                   ghz_noisy_counts, ghz_noiseless_counts, ghz_spam_corrected_counts,
                   sim_handles,
                   ourense_handles>>

Next ==
    \/ Cell8
    \/ Cell10Begin
    \/ Cell10Return
    \/ CalGetCountsBegin
    \/ CalGetCountsReturn
    \/ CalculateMatrices
    \/ Cell13Begin
    \/ Cell13Return
    \/ Cell14Begin
    \/ Cell14Return
    \/ Cell15
    \/ Cell18
    \/ Cell19
    \/ Cell20
    \/ Cell22Begin
    \/ Cell22Return
    \/ Cell24Begin
    \/ Cell24Return
    \/ Cell25
    \/ JobCompletes

Spec == Init /\ [][Next]_vars

\* ------------------------------------- the notebook's own functions
\* Cell 17 defines binseq, probs_from_counts and JSD.  A string is the
\* sequence of its characters; a vector of floats is kept exactly, as integer
\* numerators over one denominator.
notebook_vars == <<nNodes, qubit_subsets, pc, calibration_circuits, compiled, jobs,
                   submitLog, active, sim_handles, ourense_handles, iter,
                   calResults, spam_matrices, ghz_noisy_counts, ghz_noiseless_counts,
                   ghz_ourense_counts, ghz_spam_corrected_counts,
                   ghz_bayesian_corrected_counts, ghz_spam_corrected_ourense_counts,
                   probabilities, printed, log>>

\* np.sum(converted)
RECURSIVE np_sum(_)
np_sum(v) == IF v = <<>> THEN 0 ELSE Head(v) + np_sum(Tail(v))

\* str(e), for the bits of an outcome
str(e) == CASE e = 0 -> "0" [] e = 1 -> "1"

\* ''.join(str(e) for e in x)
join_str(x) == [i \in 1..Len(x) |-> str(x[i])]

\* [''.join(x) for x in itertools.product('01', repeat=k)]: the rightmost
\* character changes fastest.
RECURSIVE binseq_leftmost_fastest(_)
binseq_leftmost_fastest(k) ==
    IF k = 0 THEN << <<>> >>
    ELSE LET shorter == binseq_leftmost_fastest(k - 1) IN
         [i \in 1..(2 * Len(shorter)) |->
            <<IF i % 2 = 1 THEN "0" ELSE "1">> \o shorter[(i + 1) \div 2]]

RECURSIVE binseq(_)
binseq(k) ==
    IF k = 0 THEN << <<>> >>
    ELSE LET shorter == binseq(k - 1) IN
         [i \in 1..(2 * Len(shorter)) |->
            Append(shorter[(i + 1) \div 2], IF i % 2 = 1 THEN "0" ELSE "1")]

\* counts_dict[''.join(str(e) for e in x)] = counts[x], for x in counts
counts_dict(cs) ==
    [b \in {join_str(x) : x \in DOMAIN cs} |->
        cs[CHOOSE x \in DOMAIN cs : join_str(x) = b]]

\* counts_dict.get(b, 0)
dict_get(d, b, default) == IF b \in DOMAIN d THEN d[b] ELSE default

\* len(list(counts.keys())[0])
first_key_len(cs) == Len(CHOOSE x \in DOMAIN cs : TRUE)

\* probs_from_counts(counts): converted / np.sum(converted)
probs_from_counts(cs) ==
    LET binary_strings == binseq(first_key_len(cs))
        converted == [i \in 1..Len(binary_strings) |->
                        dict_get(counts_dict(cs), binary_strings[i], 0)]
    IN  [num |-> converted, den |-> np_sum(converted)]

\* The outcomes of k measured qubits, and the counts mappings given to
\* probs_from_counts: non-empty, keys of one length, a positive total.
BitTuples(k) == [1..k -> {0, 1}]

RECURSIVE TotalOf(_, _)
TotalOf(cs, keys) ==
    IF keys = {} THEN 0
    ELSE LET x == CHOOSE x \in keys : TRUE IN cs[x] + TotalOf(cs, keys \ {x})

CountsMappings ==
    UNION { UNION { {cs \in [keys -> 0..MaxCount] : TotalOf(cs, keys) > 0} :
                    keys \in {K \in SUBSET BitTuples(k) :
                                K # {} /\ Cardinality(K) <= MaxKeys} } :
            k \in 1..MaxNodes }

\* probs_from_counts is called on a counts mapping.
InitProbsFromCounts ==
    /\ local_pc = "probs_from_counts"
    /\ counts_arg \in CountsMappings
    /\ converted_probs = <<>>
    /\ P = <<>>
    /\ Q = <<>>
    /\ divergence = <<>>

ReturnProbsFromCounts ==
    /\ local_pc = "probs_from_counts"
    /\ converted_probs' = probs_from_counts(counts_arg)
    /\ local_pc' = "probs_from_counts returned"
    /\ UNCHANGED <<notebook_vars, counts_arg, P, Q, divergence>>

\* ---- JSD.  A value built from logarithms is kept exactly, as
\* (1 / den) * (the sum over the primes p of coef[p] * ln p), with inf set when a
\* term of it is infinite.  The logarithms of distinct primes are linearly
\* independent over the rationals, so two finite values are equal exactly when
\* their coefficients over a common denominator are.
Primes ==
    {2, 3, 5, 7, 11, 13, 17, 19, 23, 29, 31, 37, 41, 43, 47, 53, 59, 61, 67, 71, 73, 79, 83, 89, 97}

\* ln p, rounded down, in units of 0.00001
LnLo(p) ==
    CASE p = 2 -> 69314
      [] p = 3 -> 109861
      [] p = 5 -> 160943
      [] p = 7 -> 194591
      [] p = 11 -> 239789
      [] p = 13 -> 256494
      [] p = 17 -> 283321
      [] p = 19 -> 294443
      [] p = 23 -> 313549
      [] p = 29 -> 336729
      [] p = 31 -> 343398
      [] p = 37 -> 361091
      [] p = 41 -> 371357
      [] p = 43 -> 376120
      [] p = 47 -> 385014
      [] p = 53 -> 397029
      [] p = 59 -> 407753
      [] p = 61 -> 411087
      [] p = 67 -> 420469
      [] p = 71 -> 426267
      [] p = 73 -> 429045
      [] p = 79 -> 436944
      [] p = 83 -> 441884
      [] p = 89 -> 448863
      [] p = 97 -> 457471

LnHi(p) == LnLo(p) + 1

RECURSIVE gcd(_, _)
gcd(a, b) == IF b = 0 THEN a ELSE gcd(b, a % b)

RECURSIVE gcd_of(_)
gcd_of(v) == IF v = <<>> THEN 0 ELSE gcd(Head(v), gcd_of(Tail(v)))

Abs(x) == IF x < 0 THEN -x ELSE x

\* The same vector, numerators and denominator in lowest terms.
Reduce(v) ==
    LET g == gcd(gcd_of([i \in 1..Len(v.num) |-> Abs(v.num[i])]), v.den) IN
    [num |-> [i \in 1..Len(v.num) |-> v.num[i] \div g], den |-> v.den \div g]

\* np.linalg.norm(P, ord=1): the sum of the absolute values
norm_ord1(v) == [num |-> np_sum([i \in 1..Len(v.num) |-> Abs(v.num[i])]), den |-> v.den]

\* pk.sum()
vec_sum(v) == [num |-> np_sum(v.num), den |-> v.den]

\* v / r, for a vector v and a positive number r
divide(v, r) ==
    Reduce([num |-> [i \in 1..Len(v.num) |-> v.num[i] * r.den], den |-> v.den * r.num])

\* _M = 0.5 * (_P + _Q)
half_sum(p, q) ==
    Reduce([num |-> [i \in 1..Len(p.num) |-> p.num[i] * q.den + q.num[i] * p.den],
            den |-> 2 * p.den * q.den])

\* The exponent of the prime p in n >= 1
RECURSIVE Multiplicity(_, _)
Multiplicity(n, p) == IF n % p = 0 THEN 1 + Multiplicity(n \div p, p) ELSE 0

\* scipy.special.rel_entr(x, y) for x = a / b and y = c / d, times b:
\* x * log(x / y) if x > 0 and y > 0; 0 if x = 0 and y >= 0; inf otherwise.
rel_entr_inf(a, c) == ~(a > 0 /\ c > 0) /\ ~(a = 0 /\ c >= 0)

rel_entr_coef(a, b, c, d, p) ==
    IF a > 0 /\ c > 0
    THEN a * (Multiplicity(a, p) + Multiplicity(d, p)
              - Multiplicity(b, p) - Multiplicity(c, p))
    ELSE 0

\* scipy.stats.entropy(pk, qk): both are normalised to sum 1, and the
\* relative entropies of the entries are summed.
entropy(pk, qk) ==
    LET p == divide(pk, vec_sum(pk))
        q == divide(qk, vec_sum(qk))
        n == Len(p.num)
    IN  [inf |-> \E i \in 1..n : rel_entr_inf(p.num[i], q.num[i]),
         den |-> p.den,
         coef |-> [r \in Primes |->
                    np_sum([i \in 1..n |->
                            rel_entr_coef(p.num[i], p.den, q.num[i], q.den, r)])]]

\* 0.5 * (x + y)
half_of_sum(x, y) ==
    [inf |-> x.inf \/ y.inf,
     den |-> 2 * x.den * y.den,
     coef |-> [r \in Primes |-> y.den * x.coef[r] + x.den * y.coef[r]]]

\* The Kullback-Leibler divergence entropy(_P, _Q), in the place of JSD.
KL(Pv, Qv) ==
    LET _P == divide(Pv, norm_ord1(Pv))
        _Q == divide(Qv, norm_ord1(Qv))
    IN  half_of_sum(entropy(_P, _Q), entropy(_P, _Q))

\* def JSD(P, Q)
JSD(Pv, Qv) ==
    LET _P == divide(Pv, norm_ord1(Pv))
        _Q == divide(Qv, norm_ord1(Qv))
        _M == half_sum(_P, _Q)
    IN  half_of_sum(entropy(_P, _M), entropy(_Q, _M))

\* The probability vectors of n entries: non-negative, summing to 1.
ProbabilityVectors(n) ==
    {[num |-> v, den |-> np_sum(v)] : v \in {w \in [1..n -> 0..MaxCount] : np_sum(w) > 0}}

\* JSD is called on two probability vectors of one length.
InitJSD ==
    /\ local_pc = "JSD"
    /\ counts_arg = <<>>
    /\ converted_probs = <<>>
    /\ P \in UNION {ProbabilityVectors(n) : n \in 1..MaxVecLen}
    /\ Q \in ProbabilityVectors(Len(P.num))
    /\ divergence = <<>>

ReturnJSD ==
    /\ local_pc = "JSD"
    /\ divergence' = [PQ |-> JSD(P, Q), QP |-> JSD(Q, P), PP |-> JSD(P, P)]
    /\ local_pc' = "JSD returned"
    /\ UNCHANGED <<notebook_vars, counts_arg, converted_probs, P, Q>>

\* The state after cell 17: the functions are defined, and one of them is
\* called on arguments of its domain.
InitLocal ==
    /\ nNodes = MaxNodes
    /\ qubit_subsets = NotebookSubsets(nNodes)
    /\ NotebookStart
    /\ InitProbsFromCounts \/ InitJSD

NextLocal ==
    \/ ReturnProbsFromCounts
    \/ ReturnJSD

SpecLocal == InitLocal /\ [][NextLocal]_vars

\* ----------------------------------------------------------- claims
Cardinalities(subsets) == {Cardinality(subsets[i]) : i \in 1..Len(subsets)}

RECURSIVE ProductOfPowers(_, _)
ProductOfPowers(subsets, i) ==
    IF i = 0 THEN 1 ELSE Pow2(Cardinality(subsets[i])) * ProductOfPowers(subsets, i - 1)

CorrectCalls == {i \in 1..Len(log) : log[i].op = "correct_counts"}

CalculateCalls == {i \in 1..Len(log) : log[i].op = "calculate_matrices"}

\* C8: every correct_counts call comes after a calculate_matrices call and uses
\* the matrices of the latest one before it; every calculate_matrices call comes
\* after the calibration circuits were generated and after a process_circuits
\* call ran them on a backend, and is given the counts of those runs.
C8_WorkflowOrder ==
    /\ \A i \in CorrectCalls :
        \E j \in CalculateCalls :
            /\ j < i
            /\ \A k \in CalculateCalls : k < i => k <= j
            /\ log[i].data.matrices = Matrices(log[j].data)
    /\ \A i \in CalculateCalls :
        \E g \in 1..(i - 1) : \E p \in (g + 1)..(i - 1) :
            /\ log[g].op = "calibration_circuits"
            /\ log[p].op = "process_circuits"
            /\ Range(log[g].data) \subseteq Range(log[p].data)
            /\ log[i].data # <<>>
            /\ \A n \in 1..Len(log[i].data) :
                /\ log[i].data[n].of.backend = log[p].backend
                /\ log[i].data[n].of.circ \in Range(log[g].data)

\* C8, witness: the notebook, with its one subset of all the nodes, has run to
\* its end: two calibrations, each followed by two corrections.
C8_Witness ==
    /\ qubit_subsets = NotebookSubsets(nNodes)
    /\ pc = "done"
    /\ Cardinality(CalculateCalls) = 2
    /\ Cardinality(CorrectCalls) = 4

\* C9: the divergence printed as 'minimise corrected ourense probability
\* distribution' is that of the distribution of the corrected device counts:
\* ghz_ourense_counts corrected with the matrices calibrated on the device.
C9_PrintedFromDeviceCounts ==
    \A i \in 1..Len(printed) :
        printed[i].Q = "minimise corrected ourense" =>
            /\ printed[i].JSD[2] = ProbsOf(ghz_spam_corrected_ourense_counts)
            /\ printed[i].JSD[2].of.raw = ghz_ourense_counts
            /\ printed[i].JSD[2].of.matrices = spam_matrices

GetCountsReturned == {i \in 1..Len(log) : log[i].op = "get_counts"}

\* C10: at most one backend call is in progress; counts are asked for and
\* obtained only for a handle whose job was submitted, and obtained only once
\* that job has run; no job is submitted twice, and every submitted job stays
\* queued until it has run.
C10_SynchronousSequential ==
    /\ Cardinality(active) <= 1
    /\ \A c \in active : c.op = "get_counts" => c.arg \in Range(submitLog)
    /\ \A i \in GetCountsReturned :
        /\ log[i].data.handle \in Range(submitLog)
        /\ log[i].data.status = "done"
        /\ jobs[log[i].data.handle] = "done"
    /\ \A i, j \in 1..Len(submitLog) : i # j => submitLog[i] # submitLog[j]
    /\ DOMAIN jobs = Range(submitLog)
    /\ \A h \in DOMAIN jobs : jobs[h] \in {"queued", "done"}

\* C10, witness: counts of a device job were obtained while a get_counts call
\* for another device job, still queued, is in progress.
C10_Witness ==
    /\ \E i \in GetCountsReturned : log[i].backend = "ourense"
    /\ \E c \in active :
        /\ c.op = "get_counts"
        /\ c.backend = "ourense"
        /\ jobs[c.arg] = "queued"

IsZero(x) == ~x.inf /\ \A r \in Primes : x.coef[r] = 0

\* Two finite values are the same real number.
SameValue(x, y) ==
    /\ x.inf = y.inf
    /\ ~x.inf => \A r \in Primes : x.coef[r] * y.den = y.coef[r] * x.den

\* A lower bound of den * value, in units of 0.00001
RECURSIVE LowerBoundOver(_, _)
LowerBoundOver(x, S) ==
    IF S = {} THEN 0
    ELSE LET r == CHOOSE e \in S : TRUE IN
         (IF x.coef[r] >= 0 THEN x.coef[r] * LnLo(r) ELSE x.coef[r] * LnHi(r))
         + LowerBoundOver(x, S \ {r})

LowerBound(x) == LowerBoundOver(x, Primes)

DifferentZeros(v, w) ==
    /\ \E i \in 1..Len(v.num) : v.num[i] = 0 /\ w.num[i] > 0
    /\ \E j \in 1..Len(v.num) : w.num[j] = 0 /\ v.num[j] > 0

\* C12: JSD(P, Q) and JSD(Q, P) are the same number, JSD(P, P) is 0, and for
\* any two probability vectors of one length, zeros at different positions
\* included, JSD(P, Q) is finite and not negative.
C12_JSDSymmetricFiniteNonNegative ==
    local_pc = "JSD returned" =>
        /\ SameValue(divergence.PQ, divergence.QP)
        /\ IsZero(divergence.PP)
        /\ ~divergence.PQ.inf
        /\ divergence.PQ.den > 0
        /\ LowerBound(divergence.PQ) >= 0

\* JSD has returned a finite, positive number for two vectors whose zeros are
\* at different positions.
C12_Witness ==
    /\ local_pc = "JSD returned"
    /\ DifferentZeros(P, Q)
    /\ ~divergence.PQ.inf
    /\ LowerBound(divergence.PQ) > 0

\* The bits of n as a tuple of k entries, the most significant first.
Bits(n, k) == [i \in 1..k |-> (n \div Pow2(k - i)) % 2]

\* C13: probs_from_counts returns a vector of 2^k entries, k the length of the
\* keys; entry i is the count of the i-th bitstring in lexicographic order
\* (0 for one that is absent) over the total count, so that the entries are
\* not negative and sum to 1.
C13_ProbsFromCounts ==
    local_pc = "probs_from_counts returned" =>
        LET k == first_key_len(counts_arg)
            r == converted_probs
        IN  /\ Len(r.num) = Pow2(k)
            /\ r.den = TotalOf(counts_arg, DOMAIN counts_arg)
            /\ r.den > 0
            /\ \A i \in 1..Len(r.num) :
                 /\ r.num[i] = IF Bits(i - 1, k) \in DOMAIN counts_arg
                               THEN counts_arg[Bits(i - 1, k)] ELSE 0
                 /\ r.num[i] >= 0
            /\ np_sum(r.num) = r.den

\* probs_from_counts has returned for a mapping of two-bit keys with one
\* bitstring absent between two that are present.
C13_Witness ==
    /\ local_pc = "probs_from_counts returned"
    /\ DOMAIN counts_arg = {<<0, 1>>, <<1, 0>>}
    /\ converted_probs = [num |-> <<0, 2, 1, 0>>, den |-> 3]

\* The backend whose calibration counts a cell gives to calculate_matrices.
CalBackend(cell) == IF cell = "cell11" THEN "noisy_sim" ELSE "ourense"

\* The counts of the first n calibration circuits run on a backend, in the
\* order of calibration_circuits.
CalCountsInOrder(backend, n) ==
    [i \in 1..n |-> Counts(Handle(backend, calibration_circuits[i]))]

\* The calculate_matrices calls made so far, in order.
CalculateEvents == SelectSeq(log, LAMBDA e : e.op = "calculate_matrices")

\* C14: the results given to calculate_matrices are the counts of the
\* calibration circuits, one for each and in the order of
\* calibration_circuits: the generator has yielded a prefix of them while it is
\* consumed and exactly len(calibration_circuits) of them at the end, and of
\* the device handles all but the last are the calibration circuits' handles
\* and the last is the GHZ circuit's.
C14_ResultsInCircuitOrder ==
    /\ pc \in {"cell11", "cell23"} =>
        /\ Len(calResults) = iter
        /\ iter <= Len(calibration_circuits)
        /\ calResults = CalCountsInOrder(CalBackend(pc), iter)
    /\ Len(CalculateEvents) <= 2
    /\ \A n \in 1..Len(CalculateEvents) :
        CalculateEvents[n].data =
            CalCountsInOrder(CalBackend(IF n = 1 THEN "cell11" ELSE "cell23"),
                             Len(calibration_circuits))
    /\ sim_handles # <<>> => sim_handles = Handles("noisy_sim", calibration_circuits)
    /\ ourense_handles # <<>> =>
        /\ Len(ourense_handles) = Len(calibration_circuits) + 1
        /\ SubSeq(ourense_handles, 1, Len(ourense_handles) - 1)
                = Handles("ourense", calibration_circuits)
        /\ ourense_handles[Len(ourense_handles)] = Handle("ourense", ghz_circuit)

\* C14, witness: both calculate_matrices calls were made, each with the counts
\* of four calibration circuits, and the GHZ counts of the device were taken
\* from the last handle.
C14_Witness ==
    /\ Len(calibration_circuits) = 4
    /\ Len(CalculateEvents) = 2
    /\ Len(CalculateEvents[2].data) = 4
    /\ ghz_ourense_counts = Counts(ourense_handles[5])

\* The circuit whose run a counts mapping comes from: for corrected counts, the
\* circuit of the raw counts.
CircuitOf(counts) ==
    CASE counts.kind = "counts" -> counts.of.circ
      [] counts.kind = "corrected" -> counts.raw.of.circ
      [] OTHER -> None

\* The length of the keys of the counts of a run of ghz_circuit:
\* Circuit(len(pytket_ourense_device.nodes))...measure_all() measures every
\* qubit, and a key has one entry for each measured qubit.
ghz_key_len(n) == Cardinality(DOMAIN qubit_readout(n))

\* The length of the keys of what correct_counts returns.  Every JSD call on
\* the distribution of corrected counts printed a number (cells 19, 20, 25),
\* and _P + _Q of two vectors of different lengths 2^j, 2^k raises, so the
\* keys are as long as those of the noiseless counts of the same circuit.
corrected_key_len(counts, n) == ghz_key_len(n)

key_len(counts, n) ==
    IF counts.kind = "corrected" THEN corrected_key_len(counts, n) ELSE ghz_key_len(n)

\* len(probs_from_counts(counts)) = len(binseq(k)), k the length of the keys
vector_len(probs, n) == Pow2(key_len(probs.of, n))

====
